---------------------------- MODULE Spec2Model ----------------------------
(***************************************************************************)
(* Model of DaabNavisExport/parseXml.py: the walk that flattens a          *)
(* Navisworks viewpoint export into rows, the date normaliser, the         *)
(* (GUID, CommentID) deduplication, and main's resolve / parse / walk /    *)
(* write sequence.                                                         *)
(*                                                                         *)
(* Python values: a str is a TLA+ string; an Optional[str] is <<>> for     *)
(* None and <<s>> for the string s, so that None and "" stay distinct.     *)
(* An XML element is a record [tag, attrib, children, text] as             *)
(* xml.etree.ElementTree presents it.                                      *)
(***************************************************************************)
EXTENDS Integers, Sequences, FiniteSets, TLC

VARIABLES
    pc,           \* main's position: "start", "parse", "walk", "write_csv", "write_debug", "exit"
    exit_code,    \* main's return value once pc = "exit" (-1 before)
    error,        \* the exception main caught and printed ("" when none)
    root,         \* the parsed document: the list root.findall("./viewpoints/viewfolder") iterates
    top_i,        \* process_xml's loop: number of top-level folders already walked
    stack,        \* the call stack of recurse: one frame per active call
    rows,         \* process_xml's rows
    seen,         \* process_xml's seen
    view_counter, \* process_xml's view_counter[0]
    debug_lines,  \* process_xml's debug_lines
    csv_file,     \* navisworks_views_comments.csv: "absent", "partial" or "written"
    debug_file,   \* debug.txt: "absent" or "written"
    submitted     \* history: every row handed to add_row, in call order

vars == <<pc, exit_code, error, root, top_i, stack, rows, seen, view_counter,
          debug_lines, csv_file, debug_file, submitted>>

---------------------------------------------------------------------------
(* Bounds of the explored inputs. *)

\* nodes (folders + views) of a document of the nesting family
MaxShapeNodes == 5
\* nodes (folders + views + comments) of a document of the key family
MaxKeyNodes == 5

---------------------------------------------------------------------------
(* Python and ElementTree primitives. *)

None == <<>>
Some(s) == <<s>>

\* str(x) as an f-string renders an Optional[str]
Fmt(x) == IF x = None THEN "None" ELSE x[1]

Element(tag, attrib, children, text) ==
    [tag |-> tag, attrib |-> attrib, children |-> children, text |-> text]

NoAttrib == [k \in {} |-> ""]

\* elem.attrib.get(key, default)
AttribGet(elem, key, default) ==
    IF key \in DOMAIN elem.attrib THEN elem.attrib[key] ELSE default

\* elem.findall(tag): the direct children with that tag, in document order
FindAll(elem, tag) == SelectSeq(elem.children, LAMBDA c : c.tag = tag)

\* elem.find(tag): the first direct child with that tag, or None
Find(elem, tag) ==
    LET found == FindAll(elem, tag)
    IN  IF found = <<>> THEN None ELSE Some(found[1])

\* elem.findtext(tag): the text of the first such child ("" when it has none), or None
FindText(elem, tag) ==
    LET found == FindAll(elem, tag)
    IN  IF found = <<>> THEN None
        ELSE IF found[1].text = None THEN Some("") ELSE found[1].text

\* s.zfill(width) for an unsigned decimal string s
RECURSIVE Zfill(_, _)
Zfill(s, width) == IF Len(s) >= width THEN s ELSE Zfill("0" \o s, width)

\* sep.join(parts)
RECURSIVE Join(_, _)
Join(sep, parts) ==
    IF parts = <<>> THEN ""
    ELSE IF Len(parts) = 1 THEN parts[1]
    ELSE parts[1] \o sep \o Join(sep, Tail(parts))


---------------------------------------------------------------------------
(* parse_createddate *)

\* the decimal literals int() is given in the explored documents; every other string is not a number
LiteralInts == (-1 .. 32) \cup {1899, 1900, 2023, 2024, 9999, 10000}
IntLiterals == {<<ToString(n), n>> : n \in LiteralInts} \cup {<<"05", 5>>, <<" 3 ", 3>>}

Ok(v) == [ok |-> TRUE, v |-> v, e |-> ""]
Raise(e) == [ok |-> FALSE, v |-> 0, e |-> e]

\* int(s) for a string s
IntOfStr(s) ==
    LET hits == {p \in IntLiterals : p[1] = s}
    IN  IF hits = {} THEN Raise("invalid literal for int()")
        ELSE Ok((CHOOSE p \in hits : TRUE)[2])

\* int(date_node.attrib.get(key, 0))
IntAttr(date_node, key) ==
    IF key \in DOMAIN date_node.attrib THEN IntOfStr(date_node.attrib[key]) ELSE Ok(0)

IsLeap(year) == year % 4 = 0 /\ (year % 100 # 0 \/ year % 400 = 0)

DaysInMonth(year, month) ==
    IF month = 2 THEN (IF IsLeap(year) THEN 29 ELSE 28)
    ELSE IF month \in {4, 6, 9, 11} THEN 30 ELSE 31

\* datetime(year, month, day): the value, or the ValueError the constructor raises
Datetime(year, month, day) ==
    IF year < 1 \/ year > 9999 THEN Raise("year is out of range")
    ELSE IF month < 1 \/ month > 12 THEN Raise("month must be in 1..12")
    ELSE IF day < 1 \/ day > DaysInMonth(year, month) THEN Raise("day is out of range for month")
    ELSE Ok(<<year, month, day>>)

\* dt.strftime("%Y/%m/%d")
Strftime(dt) ==
    Zfill(ToString(dt[1]), 4) \o "/" \o Zfill(ToString(dt[2]), 2) \o "/" \o Zfill(ToString(dt[3]), 2)

\* the try block: Ok(the returned Optional[str]) or Raise(the exception's text)
ParseDateTry(created) ==
    LET date_node == IF created # None THEN Find(created[1], "date") ELSE None
    IN  IF date_node = None THEN Ok(None)
        ELSE LET year == IntAttr(date_node[1], "year")
                 month == IntAttr(date_node[1], "month")
                 day == IntAttr(date_node[1], "day")
             IN  IF ~year.ok THEN Raise(year.e)
                 ELSE IF ~month.ok THEN Raise(month.e)
                 ELSE IF ~day.ok THEN Raise(day.e)
                 ELSE IF year.v < 1900 \/ month.v = 0 \/ day.v = 0 THEN Ok(None)
                 ELSE LET dt == Datetime(year.v, month.v, day.v)
                      IN  IF ~dt.ok THEN Raise(dt.e)
                          ELSE Ok(Some(Strftime(dt.v)))

\* faulty variant of parse_createddate: the except clause is missing
parse_createddate_uncaught(created) ==
    LET r == ParseDateTry(created)
    IN  IF r.ok THEN [value |-> r.v, logs |-> <<>>, raised |-> FALSE]
        ELSE [value |-> None, logs |-> <<>>, raised |-> TRUE]

\* parse_createddate(created, log): the value returned, the entries logged, and
\* whether an exception leaves the function.  The raw= dump of the log entry is
\* not modelled.
parse_createddate(created) ==
    LET r == ParseDateTry(created)
    IN  IF r.ok THEN [value |-> r.v, logs |-> <<>>, raised |-> FALSE]
        ELSE [value |-> None, logs |-> << <<"datefail", r.e>> >>, raised |-> FALSE]

---------------------------------------------------------------------------
(* Rows, image names and add_row *)

CSV_FILE_NAME == "navisworks_views_comments.csv"
\* Path(CSV_FILE_NAME).stem
CSV_FILE_STEM == "navisworks_views_comments"
IMAGE_FILE_PREFIX == IF CSV_FILE_STEM # "" THEN CSV_FILE_STEM \o "_vp" ELSE "vp_"

\* faulty variant of ImageFile: the zfill is missing
ImageFileUnpadded(counter) == IMAGE_FILE_PREFIX \o ToString(counter) \o ".jpg"

\* f"{IMAGE_FILE_PREFIX}{str(view_counter[0]).zfill(4)}.jpg"
ImageFile(counter) == IMAGE_FILE_PREFIX \o Zfill(ToString(counter), 4) \o ".jpg"

\* faulty variant of PathColumns: the Subfolder cell is joined from new_path[1:]
PathColumnsFromSecond(new_path) ==
    << IF Len(new_path) > 0 THEN Some(new_path[1]) ELSE None,
       IF Len(new_path) > 1 THEN Some(new_path[2]) ELSE None,
       IF Len(new_path) > 2 THEN Some(Join(" > ", SubSeq(new_path, 2, Len(new_path)))) ELSE None >>

\* the first three cells of a row
PathColumns(new_path) ==
    << IF Len(new_path) > 0 THEN Some(new_path[1]) ELSE None,
       IF Len(new_path) > 1 THEN Some(new_path[2]) ELSE None,
       IF Len(new_path) > 2 THEN Some(Join(" > ", SubSeq(new_path, 3, Len(new_path)))) ELSE None >>

\* the row of one comment
CommentRow(new_path, view_name, guid, comment, created_str, image_file) ==
    PathColumns(new_path) \o
    << Some(view_name), Some(guid),
       Some(AttribGet(comment, "id", "")),
       Some(AttribGet(comment, "status", "")),
       FindText(comment, "user"),
       FindText(comment, "body"),
       created_str,
       Some(image_file) >>

\* the row of a view without a comments element
NoCommentRow(new_path, view_name, guid, image_file) ==
    PathColumns(new_path) \o
    << Some(view_name), Some(guid), None, None, None, None, None, Some(image_file) >>

\* faulty variant of RowKey: an absent CommentID is keyed like an empty one
RowKeyNoneAsEmpty(row) == <<row[5], IF row[6] = None THEN Some("") ELSE row[6]>>

\* key = (row[4], row[5]), 0-based in Python
RowKey(row) == <<row[5], row[6]>>

\* csv.writer's rendering of a cell: None is written as the empty string
CsvCell(value) == IF value = None THEN "" ELSE value[1]

\* log(message); the optional print to the console is not modelled
log(message) == debug_lines' = Append(debug_lines, message)

\* faulty variant of add_row: the seen check is missing
add_row_unchecked(row) ==
    /\ submitted' = Append(submitted, row)
    /\ rows' = Append(rows, row)
    /\ seen' = seen \cup {<<row[5], row[6]>>}
    /\ UNCHANGED debug_lines

\* faulty variant of add_row: a duplicate overwrites the row kept for its key
add_row_last_wins(row) ==
    /\ submitted' = Append(submitted, row)
    /\ IF <<row[5], row[6]>> \notin seen
       THEN /\ rows' = Append(rows, row)
            /\ seen' = seen \cup {<<row[5], row[6]>>}
            /\ UNCHANGED debug_lines
       ELSE /\ rows' = [i \in DOMAIN rows |->
                          IF <<rows[i][5], rows[i][6]>> = <<row[5], row[6]>> THEN row ELSE rows[i]]
            /\ debug_lines' = Append(debug_lines, <<"duplicate", Fmt(row[5]), Fmt(row[6])>>)
            /\ UNCHANGED seen

add_row(row) ==
    /\ submitted' = Append(submitted, row)
    /\ IF RowKey(row) \notin seen
       THEN /\ rows' = Append(rows, row)
            /\ seen' = seen \cup {RowKey(row)}
            /\ UNCHANGED debug_lines
       ELSE /\ log(<<"duplicate", Fmt(row[5]), Fmt(row[6])>>)
            /\ UNCHANGED <<rows, seen>>

---------------------------------------------------------------------------
(* The explored documents.  A document is the list of top-level viewfolder   *)
(* elements under <viewpoints>; views live in folders.                       *)

AttribOf(pairs) == [k \in {p[1] : p \in pairs} |-> (CHOOSE p \in pairs : p[1] = k)[2]]

TextElement(tag, text) == Element(tag, NoAttrib, <<>>, Some(text))

DateElement(attrib) == Element("createddate", NoAttrib, <<Element("date", attrib, <<>>, None)>>, None)

ViewElement(attrib, comments) ==
    Element("view", attrib,
            IF comments = None THEN <<>> ELSE <<Element("comments", NoAttrib, comments[1], None)>>,
            None)

FolderElement(attrib, children) == Element("viewfolder", attrib, children, None)

\* comments of the key family: two with the same id (one with a valid date, one with an
\* impossible one), and one without attributes, with an empty <user> and an empty <createddate>
KeyComments ==
    { Element("comment", [id |-> "C1", status |-> "Open"],
              << TextElement("user", "ann"), TextElement("body", "B1"),
                 DateElement([year |-> "2024", month |-> "3", day |-> "5"]) >>, None),
      Element("comment", [id |-> "C1", status |-> "Closed"],
              << TextElement("body", "B2"),
                 DateElement([year |-> "2024", month |-> "13", day |-> "1"]) >>, None),
      Element("comment", NoAttrib,
              << Element("user", NoAttrib, <<>>, None),
                 Element("createddate", NoAttrib, <<>>, None) >>, None) }

KeyViewAttribs == { [name |-> "V1", guid |-> "G1"], NoAttrib }
ShapeViewAttribs == { [name |-> "V1", guid |-> "G1"], [name |-> "V2", guid |-> "G2"] }

\* a family of documents: the view attributes and comments it draws from, whether a view
\* may hold a <comments> element, how deep folders nest, and how folders are named
KeyFamily == [views |-> KeyViewAttribs, comments |-> KeyComments, containers |-> TRUE,
              depth |-> 1, named_by_level |-> FALSE]
ShapeFamily == [views |-> ShapeViewAttribs, comments |-> {}, containers |-> FALSE,
                depth |-> MaxShapeNodes, named_by_level |-> TRUE]

\* the folder attributes at a nesting level: in the nesting family a folder is named after
\* its level (Cat, Sub, D1, D2, D3, ...), in the key family every folder is named Cat
FolderAttribs(fam, level) ==
    IF fam.named_by_level /\ level > 1
    THEN {[name |-> IF level = 2 THEN "Sub" ELSE "D" \o ToString(level - 2)]}
    ELSE {[name |-> "Cat"]}

\* the views of exactly n nodes (the view and its comments)
ViewsOfSize(n, fam) ==
    IF n = 1
    THEN {ViewElement(a, None) : a \in fam.views}
         \cup (IF fam.containers THEN {ViewElement(a, Some(<<>>)) : a \in fam.views} ELSE {})
    ELSE IF fam.containers
         THEN {ViewElement(a, Some(cs)) : a \in fam.views, cs \in [1 .. (n - 1) -> fam.comments]}
         ELSE {}

RECURSIVE ElementSeqs(_, _, _)
\* the sequences of folders (and, below the top level, views) of exactly n nodes in all,
\* for the children of a folder at nesting level - 1 (level 1: the top-level folders)
ElementSeqs(n, level, fam) ==
    IF n = 0 THEN {<<>>}
    ELSE UNION { { <<e>> \o rest :
                     e \in (IF level > fam.depth THEN {}
                            ELSE {FolderElement(a, ch) :
                                    a \in FolderAttribs(fam, level),
                                    ch \in ElementSeqs(k - 1, level + 1, fam)})
                           \cup (IF level = 1 THEN {} ELSE ViewsOfSize(k, fam)),
                     rest \in ElementSeqs(n - k, level, fam) } : k \in 1 .. n }

FamilyDocuments(maxNodes, fam) == UNION {ElementSeqs(n, 1, fam) : n \in 0 .. maxNodes}

\* date attributes as they may appear on <date>: absent, not a number, or a literal
YearOpts == {None, Some("abc"), Some("0"), Some("1899"), Some("1900"), Some("2023"),
             Some("2024"), Some("9999"), Some("10000")}
MonthOpts == {None, Some("x"), Some("-1"), Some("0"), Some("1"), Some("2"), Some("4"),
              Some("05"), Some("12"), Some("13")}
DayOpts == {None, Some(""), Some("0"), Some("1"), Some(" 3 "), Some("28"), Some("29"),
            Some("30"), Some("31"), Some("32")}

DateAttribs ==
    { AttribOf((IF y = None THEN {} ELSE {<<"year", y[1]>>})
               \cup (IF m = None THEN {} ELSE {<<"month", m[1]>>})
               \cup (IF d = None THEN {} ELSE {<<"day", d[1]>>})) :
        y \in YearOpts, m \in MonthOpts, d \in DayOpts }

\* one unnamed folder, one view, one comment carrying the date
DateDocuments ==
    { << FolderElement(NoAttrib,
            << ViewElement([name |-> "V1", guid |-> "G1"],
                  Some(<< Element("comment", [id |-> "C1", status |-> "Open"],
                                  <<DateElement(a)>>, None) >>)) >>) >> :
        a \in DateAttribs }

Documents ==
    FamilyDocuments(MaxShapeNodes, ShapeFamily)
    \cup FamilyDocuments(MaxKeyNodes, KeyFamily)
    \cup DateDocuments

---------------------------------------------------------------------------
(* recurse, as a machine over an explicit call stack *)

\* main's except clause: print the error, return 1
Fail(exc) == pc' = "exit" /\ exit_code' = 1 /\ error' = exc

Views(folder) == FindAll(folder, "view")
\* faulty variant of ChildFolders: the child folders in reverse document order
ChildFoldersReversed(folder) ==
    LET found == FindAll(folder, "viewfolder")
    IN  [i \in 1 .. Len(found) |-> found[Len(found) + 1 - i]]

ChildFolders(folder) == FindAll(folder, "viewfolder")

\* the comment elements of a view's <comments>, or None when the view has no <comments>
Comments(view) ==
    LET comments == Find(view, "comments")
    IN  IF comments = None THEN None ELSE Some(FindAll(comments[1], "comment"))

\* a frame of recurse at its entry: the folder, new_path, and the loop positions
NewFrame(folder, path) ==
    [folder |-> folder,
     new_path |-> Append(path, AttribGet(folder, "name", "")),
     phase |-> "views", vi |-> 0, ci |-> 0, ki |-> 0,
     image_file |-> "", created_str |-> None]

Top == stack[Len(stack)]
SetTop(frame) == [stack EXCEPT ![Len(stack)] = frame]
CurrentView == Views(Top.folder)[Top.vi]
CurrentComment == Comments(CurrentView)[1][Top.ci + 1]
ViewName(view) == AttribGet(view, "name", "")
Guid(view) == AttribGet(view, "guid", "")

\* where the view loop goes after the current comment
AfterComment(frame, ncomments) ==
    IF frame.ci + 1 < ncomments
    THEN [frame EXCEPT !.ci = @ + 1, !.phase = "comment"]
    ELSE [frame EXCEPT !.ci = @ + 1, !.phase = "views"]

\* process_xml calls recurse(vf, []) on the next top-level folder
CallTop ==
    /\ pc = "walk" /\ stack = <<>> /\ top_i < Len(root)
    /\ LET frame == NewFrame(root[top_i + 1], <<>>)
       IN  /\ stack' = <<frame>>
           /\ log(<<"folder", Join(" > ", frame.new_path)>>)
    /\ top_i' = top_i + 1
    /\ UNCHANGED <<pc, exit_code, error, root, rows, seen, view_counter, csv_file, debug_file, submitted>>

\* recurse calls itself on the next child folder, once the views are done
CallChild ==
    /\ pc = "walk" /\ stack # <<>>
    /\ Top.phase = "views" /\ Top.vi = Len(Views(Top.folder))
    /\ Top.ki < Len(ChildFolders(Top.folder))
    /\ LET frame == NewFrame(ChildFolders(Top.folder)[Top.ki + 1], Top.new_path)
       IN  /\ stack' = Append(SetTop([Top EXCEPT !.ki = @ + 1]), frame)
           /\ log(<<"folder", Join(" > ", frame.new_path)>>)
    /\ UNCHANGED <<pc, exit_code, error, root, top_i, rows, seen, view_counter, csv_file, debug_file, submitted>>

\* recurse returns
Return ==
    /\ pc = "walk" /\ stack # <<>>
    /\ Top.phase = "views" /\ Top.vi = Len(Views(Top.folder))
    /\ Top.ki = Len(ChildFolders(Top.folder))
    /\ stack' = SubSeq(stack, 1, Len(stack) - 1)
    /\ UNCHANGED <<pc, exit_code, error, root, top_i, rows, seen, view_counter, debug_lines,
                   csv_file, debug_file, submitted>>

\* the head of the view loop: count the view, name its image, log it
FoundView ==
    /\ pc = "walk" /\ stack # <<>>
    /\ Top.phase = "views" /\ Top.vi < Len(Views(Top.folder))
    /\ LET view == Views(Top.folder)[Top.vi + 1]
           image_file == ImageFile(view_counter + 1)
           comments == Comments(view)
           phase == IF comments = None THEN "nocomments"
                    ELSE IF comments[1] = <<>> THEN "views" ELSE "comment"
       IN  /\ view_counter' = view_counter + 1
           /\ log(<<"view", ViewName(view), Guid(view), image_file>>)
           /\ stack' = SetTop([Top EXCEPT !.vi = @ + 1, !.ci = 0, !.phase = phase,
                                          !.image_file = image_file])
    /\ UNCHANGED <<pc, exit_code, error, root, top_i, rows, seen, csv_file, debug_file, submitted>>

\* the head of the comment loop: read the comment and normalise its date
ReadComment ==
    /\ pc = "walk" /\ stack # <<>> /\ Top.phase = "comment"
    /\ LET created == Find(CurrentComment, "createddate")
           r == IF created # None THEN parse_createddate(created)
                ELSE [value |-> None, logs |-> <<>>, raised |-> FALSE]
       IN  /\ debug_lines' = debug_lines \o r.logs
           /\ IF r.raised
              THEN /\ Fail("parse_createddate raised") /\ stack' = <<>>
              ELSE /\ stack' = SetTop([Top EXCEPT !.created_str = r.value, !.phase = "logcomment"])
                   /\ UNCHANGED <<pc, exit_code, error>>
    /\ UNCHANGED <<root, top_i, rows, seen, view_counter, csv_file, debug_file, submitted>>

LogComment ==
    /\ pc = "walk" /\ stack # <<>> /\ Top.phase = "logcomment"
    /\ log(<<"comment", AttribGet(CurrentComment, "id", ""),
             AttribGet(CurrentComment, "status", ""), Fmt(FindText(CurrentComment, "user"))>>)
    /\ stack' = SetTop([Top EXCEPT !.phase = "addrow"])
    /\ UNCHANGED <<pc, exit_code, error, root, top_i, rows, seen, view_counter, csv_file, debug_file, submitted>>

AddCommentRow ==
    /\ pc = "walk" /\ stack # <<>> /\ Top.phase = "addrow"
    /\ add_row(CommentRow(Top.new_path, ViewName(CurrentView), Guid(CurrentView),
                          CurrentComment, Top.created_str, Top.image_file))
    /\ stack' = SetTop(AfterComment(Top, Len(Comments(CurrentView)[1])))
    /\ UNCHANGED <<pc, exit_code, error, root, top_i, view_counter, csv_file, debug_file>>

\* the else branch: the view has no <comments>
WarnNoComments ==
    /\ pc = "walk" /\ stack # <<>> /\ Top.phase = "nocomments"
    /\ log(<<"nocomments", ViewName(CurrentView)>>)
    /\ stack' = SetTop([Top EXCEPT !.phase = "addnone"])
    /\ UNCHANGED <<pc, exit_code, error, root, top_i, rows, seen, view_counter, csv_file, debug_file, submitted>>

AddNoCommentRow ==
    /\ pc = "walk" /\ stack # <<>> /\ Top.phase = "addnone"
    /\ add_row(NoCommentRow(Top.new_path, ViewName(CurrentView), Guid(CurrentView), Top.image_file))
    /\ stack' = SetTop([Top EXCEPT !.phase = "views"])
    /\ UNCHANGED <<pc, exit_code, error, root, top_i, view_counter, csv_file, debug_file>>

\* process_xml returns rows, debug_lines
WalkDone ==
    /\ pc = "walk" /\ stack = <<>> /\ top_i = Len(root)
    /\ pc' = "write_csv"
    /\ UNCHANGED <<exit_code, error, root, top_i, stack, rows, seen, view_counter, debug_lines,
                   csv_file, debug_file, submitted>>

---------------------------------------------------------------------------
(* main: resolve the path, parse, walk, write the two files *)

Paths == {"export.xml", "missing.xml"}
IsFile(path) == path = "export.xml"

\* ensure_xml_path: Ok(the path) or Raise(the exception).  cli_path and the dialog's
\* selection are Optional; typed is the line read from input(), stripped
ensure_xml_path(cli_path, selected, typed) ==
    IF cli_path # None /\ cli_path[1] # ""
    THEN IF IsFile(cli_path[1]) THEN Ok(cli_path[1]) ELSE Raise("FileNotFoundError")
    ELSE IF selected # None
         THEN IF IsFile(selected[1]) THEN Ok(selected[1]) ELSE Raise("FileNotFoundError")
         ELSE IF typed = "" THEN Raise("ValueError: No XML file selected.")
              ELSE IF IsFile(typed) THEN Ok(typed) ELSE Raise("FileNotFoundError")

EnsureXmlPath ==
    /\ pc = "start"
    /\ \E cli_path \in {None} \cup {Some(p) : p \in Paths},
          selected \in {None} \cup {Some(p) : p \in Paths},
          typed \in {""} \cup Paths :
          LET r == ensure_xml_path(cli_path, selected, typed)
          IN  IF r.ok
              THEN pc' = "parse" /\ UNCHANGED <<exit_code, error>>
              ELSE Fail(r.e)
    /\ UNCHANGED <<root, top_i, stack, rows, seen, view_counter, debug_lines,
                   csv_file, debug_file, submitted>>

\* ET.parse raises on a document that is not well formed
ParseFails ==
    /\ pc = "parse"
    /\ Fail("ParseError")
    /\ UNCHANGED <<root, top_i, stack, rows, seen, view_counter, debug_lines,
                   csv_file, debug_file, submitted>>

\* ET.parse and root.findall("./viewpoints/viewfolder")
ParseXml ==
    /\ pc = "parse"
    /\ \E document \in Documents : root' = document
    /\ pc' = "walk"
    /\ UNCHANGED <<exit_code, error, top_i, stack, rows, seen, view_counter, debug_lines,
                   csv_file, debug_file, submitted>>

\* write_outputs, first with-block: open may fail, a write may fail after the file is opened
WriteCsv ==
    /\ pc = "write_csv"
    /\ \E outcome \in {"ok", "open fails", "write fails"} :
          /\ csv_file' = CASE outcome = "ok" -> "written"
                           [] outcome = "write fails" -> "partial"
                           [] OTHER -> csv_file
          /\ IF outcome = "ok"
             THEN pc' = "write_debug" /\ UNCHANGED <<exit_code, error>>
             ELSE Fail("OSError writing the table")
    /\ UNCHANGED <<root, top_i, stack, rows, seen, view_counter, debug_lines, debug_file, submitted>>

\* write_outputs, second with-block, then main's return 0
WriteDebug ==
    /\ pc = "write_debug"
    /\ \E outcome \in {"ok", "open fails", "write fails"} :
          /\ debug_file' = CASE outcome = "ok" -> "written"
                             [] outcome = "write fails" -> "partial"
                             [] OTHER -> debug_file
          /\ IF outcome = "ok"
             THEN pc' = "exit" /\ exit_code' = 0 /\ UNCHANGED error
             ELSE Fail("OSError writing the log")
    /\ UNCHANGED <<root, top_i, stack, rows, seen, view_counter, debug_lines, csv_file, submitted>>

Init ==
    /\ pc = "start"
    /\ exit_code = -1
    /\ error = ""
    /\ root = <<>>
    /\ top_i = 0
    /\ stack = <<>>
    /\ rows = <<>>
    /\ seen = {}
    /\ view_counter = 0
    /\ debug_lines = <<>>
    /\ csv_file = "absent"
    /\ debug_file = "absent"
    /\ submitted = <<>>

Next ==
    \/ EnsureXmlPath
    \/ ParseFails
    \/ ParseXml
    \/ CallTop
    \/ CallChild
    \/ Return
    \/ FoundView
    \/ ReadComment
    \/ LogComment
    \/ AddCommentRow
    \/ WarnNoComments
    \/ AddNoCommentRow
    \/ WalkDone
    \/ WriteCsv
    \/ WriteDebug

Spec == Init /\ [][Next]_vars

---------------------------------------------------------------------------
(* What the claims are stated with: the cells of a row by name, and the     *)
(* expected results computed from the document alone.                       *)

Last(seq) == seq[Len(seq)]
IsPrefix(a, b) == Len(a) <= Len(b) /\ SubSeq(b, 1, Len(a)) = a

\* the identity key of a row: its viewIdentifier and commentId cells
IdentityKey(row) == <<row[5], row[6]>>

RECURSIVE FirstPerKey(_, _)
\* the rows of seq whose identity key is not in taken and did not occur earlier in seq
FirstPerKey(seq, taken) ==
    IF seq = <<>> THEN <<>>
    ELSE IF IdentityKey(Head(seq)) \in taken THEN FirstPerKey(Tail(seq), taken)
    ELSE <<Head(seq)>> \o FirstPerKey(Tail(seq), taken \cup {IdentityKey(Head(seq))})

WalkFinished == pc \in {"write_csv", "write_debug"}

EntriesOf(kind) == SelectSeq(debug_lines, LAMBDA e : e[1] = kind)

\* the image reference the N-th view is to get
ExpectedImage(n) ==
    "navisworks_views_comments_vp"
    \o (CASE n < 10 -> "000" [] n < 100 -> "00" [] n < 1000 -> "0" [] OTHER -> "")
    \o ToString(n) \o ".jpg"

\* the document read directly: direct views, direct child folders, names, comments
ViewsIn(folder) == SelectSeq(folder.children, LAMBDA c : c.tag = "view")
FoldersIn(folder) == SelectSeq(folder.children, LAMBDA c : c.tag = "viewfolder")
AttrOrEmpty(elem, key) == IF key \in DOMAIN elem.attrib THEN elem.attrib[key] ELSE ""
HasChild(elem, tag) == \E i \in DOMAIN elem.children : elem.children[i].tag = tag
FirstChild(elem, tag) ==
    elem.children[CHOOSE i \in DOMAIN elem.children :
                    /\ elem.children[i].tag = tag
                    /\ \A j \in 1 .. i - 1 : elem.children[j].tag # tag]
CommentsIn(view) ==
    IF HasChild(view, "comments")
    THEN SelectSeq(FirstChild(view, "comments").children, LAMBDA c : c.tag = "comment")
    ELSE <<>>

RECURSIVE Visits(_, _)
\* the views under the folders, depth-first and pre-order: a folder's views, then each
\* child folder's subtree, then the next sibling folder; each view with its FolderPath
Visits(folders, path) ==
    IF folders = <<>> THEN <<>>
    ELSE LET folder == Head(folders)
             here == Append(path, AttrOrEmpty(folder, "name"))
         IN  [i \in 1 .. Len(ViewsIn(folder)) |-> [view |-> ViewsIn(folder)[i], path |-> here]]
             \o Visits(FoldersIn(folder), here)
             \o Visits(Tail(folders), path)

ExpectedVisits == Visits(root, <<>>)

RECURSIVE CountFolders(_)
CountFolders(folders) ==
    IF folders = <<>> THEN 0
    ELSE 1 + CountFolders(FoldersIn(Head(folders))) + CountFolders(Tail(folders))

RECURSIVE SubmissionsFrom(_, _)
\* what is to be submitted for the visits from the k-th on, in order: per visited view
\* its comments in document order, or the view alone when it has no comments element
SubmissionsFrom(visits, k) ==
    IF k > Len(visits) THEN <<>>
    ELSE LET view == visits[k].view
             comments == CommentsIn(view)
         IN  (IF HasChild(view, "comments")
              THEN [c \in 1 .. Len(comments) |->
                      [k |-> k, view |-> view, comment |-> Some(comments[c])]]
              ELSE << [k |-> k, view |-> view, comment |-> None] >>)
             \o SubmissionsFrom(visits, k + 1)

ExpectedSubmissions == SubmissionsFrom(ExpectedVisits, 1)

\* row is the record of that view and comment
RowIsOf(row, sub) ==
    /\ row[11] = Some(ExpectedImage(sub.k))
    /\ row[4] = Some(AttrOrEmpty(sub.view, "name"))
    /\ row[5] = Some(AttrOrEmpty(sub.view, "guid"))
    /\ IF sub.comment = None
       THEN \A c \in 6 .. 10 : row[c] = None
       ELSE /\ row[6] = Some(AttrOrEmpty(sub.comment[1], "id"))
            /\ row[7] = Some(AttrOrEmpty(sub.comment[1], "status"))
            /\ (row[8] = None <=> ~HasChild(sub.comment[1], "user"))
            /\ (row[9] = None <=> ~HasChild(sub.comment[1], "body"))

RECURSIVE IsSubsequence(_, _)
\* a is b with some elements left out, order kept
IsSubsequence(a, b) ==
    IF a = <<>> THEN TRUE
    ELSE IF b = <<>> THEN FALSE
    ELSE IF Head(a) = Head(b) THEN IsSubsequence(Tail(a), Tail(b))
    ELSE IsSubsequence(a, Tail(b))

RECURSIVE DetailPath(_, _)
\* the path elements 3 .. n joined with " > "
DetailPath(path, n) ==
    IF n = 3 THEN path[3] ELSE DetailPath(path, n - 1) \o " > " \o path[n]

---------------------------------------------------------------------------
(* C1: the accepted rows hold at most one row per (viewIdentifier,          *)
(* commentId) pair, and the row kept for a pair is the first one submitted  *)
(* with it: the accepted list is the submissions with every later           *)
(* occurrence of a pair removed.                                            *)
C1_FirstOccurrenceWins ==
    /\ \A i, j \in DOMAIN rows : IdentityKey(rows[i]) = IdentityKey(rows[j]) => i = j
    /\ rows = FirstPerKey(submitted, {})

\* two different rows with one key were submitted, and a third row after them
C1_Witness ==
    \E i, j \in DOMAIN submitted :
        /\ i < j /\ j < Len(submitted)
        /\ IdentityKey(submitted[i]) = IdentityKey(submitted[j])
        /\ submitted[i] # submitted[j]
        /\ Len(rows) >= 2

(* C8: submitting a record whose pair was already seen leaves rows and seen *)
(* unchanged and appends exactly one duplicate entry citing the GUID and    *)
(* the CommentID; rows and debug_lines only ever grow by appending.         *)
C8_DuplicateOnlyLogs ==
    [][ /\ IsPrefix(rows, rows')
        /\ IsPrefix(debug_lines, debug_lines')
        /\ ( /\ Len(submitted') = Len(submitted) + 1
             /\ IdentityKey(Last(submitted')) \in {IdentityKey(rows[i]) : i \in DOMAIN rows} )
           => /\ rows' = rows
              /\ seen' = seen
              /\ debug_lines' =
                   Append(debug_lines,
                          <<"duplicate", Last(submitted')[5][1],
                            IF Last(submitted')[6] = None THEN "None" ELSE Last(submitted')[6][1]>>)
      ]_vars

\* a duplicate has just been rejected while rows were already accepted
C8_Witness ==
    /\ Len(rows) >= 2 /\ Len(submitted) > Len(rows)
    /\ debug_lines # <<>> /\ Last(debug_lines)[1] = "duplicate"
    /\ IdentityKey(Last(submitted)) \in {IdentityKey(rows[i]) : i \in 1 .. Len(rows) - 1}

(* C10: a record with an absent commentId and a record with an empty-string *)
(* commentId for the same viewIdentifier are both accepted, in either       *)
(* submission order, and their GUID and CommentID cells are written         *)
(* identically to the table.                                                *)
C10_AbsentAndEmptyIdBothKept ==
    \A i, j \in DOMAIN submitted :
        ( /\ submitted[i][5] = submitted[j][5]
          /\ submitted[i][6] = None
          /\ submitted[j][6] = Some("") )
        => \E a, b \in DOMAIN rows :
              /\ a # b
              /\ rows[a][5] = submitted[i][5] /\ rows[a][6] = None
              /\ rows[b][5] = submitted[i][5] /\ rows[b][6] = Some("")
              /\ CsvCell(rows[a][5]) = CsvCell(rows[b][5])
              /\ CsvCell(rows[a][6]) = "" /\ CsvCell(rows[b][6]) = ""

\* the comment without an id came first, the view without comments second, both are rows
C10_Witness ==
    \E a, b \in DOMAIN rows :
        /\ a < b
        /\ rows[a][5] = rows[b][5]
        /\ rows[a][6] = Some("") /\ rows[b][6] = None
        /\ CsvCell(rows[a][6]) = CsvCell(rows[b][6])

(* C2: the counter is incremented exactly once per view: the N-th view in    *)
(* traversal order is logged with number N whatever its comments and        *)
(* whether or not its records are rejected, the final counter is the number *)
(* of views, and the image reference is the prefix plus N zero-padded to at *)
(* least 4 digits (7 -> 0007, 12345 -> 12345).                              *)
C2_OneNumberPerView ==
    /\ LET visits == ExpectedVisits
           logged == EntriesOf("view")
       IN  /\ view_counter <= Len(visits)
           /\ Len(logged) = view_counter
           /\ \A n \in 1 .. view_counter :
                 logged[n] = <<"view", AttrOrEmpty(visits[n].view, "name"),
                              AttrOrEmpty(visits[n].view, "guid"), ExpectedImage(n)>>
           /\ WalkFinished => view_counter = Len(visits)
    /\ \A i \in DOMAIN submitted :
          \E n \in 1 .. view_counter : submitted[i][11] = Some(ExpectedImage(n))
    /\ \A n \in {1, 7, 9, 10, 99, 100, 999, 1000, 9999, 10000, 12345} :
          ImageFile(n) = ExpectedImage(n)
    /\ ImageFile(7) = "navisworks_views_comments_vp0007.jpg"
    /\ ImageFile(12345) = "navisworks_views_comments_vp12345.jpg"

\* a finished walk over several views, one with several comments, with rejected records
C2_Witness ==
    /\ WalkFinished
    /\ view_counter >= 2
    /\ Len(submitted) > view_counter
    /\ Len(rows) < Len(submitted)

(* C5: records are submitted depth-first, pre-order, in document order (a    *)
(* folder's views with their comments in order, then each child folder's    *)
(* whole subtree, then the next sibling), and the accepted rows keep that   *)
(* order.                                                                   *)
C5_RowsInTraversalOrder ==
    /\ LET expected == ExpectedSubmissions
       IN  /\ Len(submitted) <= Len(expected)
           /\ \A i \in DOMAIN submitted : RowIsOf(submitted[i], expected[i])
           /\ WalkFinished => Len(submitted) = Len(expected)
    /\ IsSubsequence(rows, submitted)

\* a finished walk of a folder whose first child is a folder with a view and which has
\* a view of its own after it in the document, both accepted
C5_Witness ==
    /\ WalkFinished
    /\ Len(rows) >= 2
    /\ \E t \in DOMAIN root :
          /\ Len(root[t].children) >= 2
          /\ root[t].children[1].tag = "viewfolder"
          /\ ViewsIn(root[t].children[1]) # <<>>
          /\ root[t].children[2].tag = "view"

(* C6: category is the first element of the view's FolderPath, subcategory  *)
(* the second or absent, detailPath the remaining elements joined with      *)
(* " > " or absent when the path has fewer than 3; the path of a call is    *)
(* its caller's path plus one name, so a child's call changes nothing for   *)
(* the folders walked after it.                                             *)
C6_PathColumns ==
    /\ LET visits == ExpectedVisits
       IN  \A i \in DOMAIN submitted :
          \E n \in DOMAIN visits :
             LET path == visits[n].path
             IN  /\ submitted[i][11] = Some(ExpectedImage(n))
                 /\ submitted[i][1] = Some(path[1])
                 /\ submitted[i][2] = (IF Len(path) >= 2 THEN Some(path[2]) ELSE None)
                 /\ submitted[i][3] = (IF Len(path) >= 3 THEN Some(DetailPath(path, Len(path))) ELSE None)
    /\ \A d \in DOMAIN stack :
          /\ Len(stack[d].new_path) = d
          /\ d > 1 => IsPrefix(stack[d - 1].new_path, stack[d].new_path)
    /\ PathColumns(<<"Cat", "Sub", "D1", "D2">>) = <<Some("Cat"), Some("Sub"), Some("D1 > D2")>>

\* a row of a view four folders deep
C6_Witness ==
    \E i \in DOMAIN rows :
        /\ rows[i][1] = Some("Cat") /\ rows[i][2] = Some("Sub")
        /\ rows[i][3] = Some("D1 > D2")

(* The date normaliser's contract, stated on the descriptor alone. *)

\* the field as a number: 0 when the attribute is absent or not a number
FieldOrZero(date, key) ==
    IF key \in DOMAIN date.attrib /\ IntOfStr(date.attrib[key]).ok
    THEN IntOfStr(date.attrib[key]).v ELSE 0
FieldNotANumber(date, key) == key \in DOMAIN date.attrib /\ ~IntOfStr(date.attrib[key]).ok

MonthLengths(y) ==
    <<31, IF y % 400 = 0 \/ (y % 4 = 0 /\ y % 100 # 0) THEN 29 ELSE 28, 31, 30, 31, 30, 31, 31, 30, 31, 30, 31>>
IsCalendarDate(y, m, d) ==
    /\ y \in 1 .. 9999 /\ m \in 1 .. 12
    /\ d \in 1 .. MonthLengths(y)[m]
TwoDigits(n) == IF n < 10 THEN "0" \o ToString(n) ELSE ToString(n)

\* the date descriptor of a comment: the <date> under its <createddate>, or None
DescriptorOf(comment) ==
    IF HasChild(comment, "createddate") /\ HasChild(FirstChild(comment, "createddate"), "date")
    THEN Some(FirstChild(FirstChild(comment, "createddate"), "date")) ELSE None

NormalizedDate(descriptor) ==
    IF descriptor = None THEN None
    ELSE LET y == FieldOrZero(descriptor[1], "year")
             m == FieldOrZero(descriptor[1], "month")
             d == FieldOrZero(descriptor[1], "day")
         IN  IF y < 1900 \/ m = 0 \/ d = 0 THEN None
             ELSE IF IsCalendarDate(y, m, d)
                  THEN Some(ToString(y) \o "/" \o TwoDigits(m) \o "/" \o TwoDigits(d))
                  ELSE None

ConversionFails(descriptor) ==
    /\ descriptor # None
    /\ \/ \E key \in {"year", "month", "day"} : FieldNotANumber(descriptor[1], key)
       \/ LET y == FieldOrZero(descriptor[1], "year")
              m == FieldOrZero(descriptor[1], "month")
              d == FieldOrZero(descriptor[1], "day")
          IN  y >= 1900 /\ m # 0 /\ d # 0 /\ ~IsCalendarDate(y, m, d)

JustParsed == pc = "walk" /\ stack # <<>> /\ Top.phase = "logcomment"

\* after a comment's date was read: no exception left parse_createddate, the value kept is
\* the normalised date, and the last log entry is a date failure exactly on a conversion failure
C7_DateRead ==
    /\ error # "parse_createddate raised"
    /\ JustParsed =>
          LET descriptor == DescriptorOf(CurrentComment)
          IN  /\ Top.created_str = NormalizedDate(descriptor)
              /\ (Last(debug_lines)[1] = "datefail") <=> ConversionFails(descriptor)
    /\ parse_createddate(Some(DateElement([year |-> "2024", month |-> "3", day |-> "5"]))).value
          = Some("2024/03/05")
    /\ parse_createddate(Some(DateElement([year |-> "1899", month |-> "3", day |-> "5"]))).value = None
    /\ parse_createddate(Some(DateElement([year |-> "2024", month |-> "0", day |-> "5"]))).value = None
    /\ parse_createddate(None) = [value |-> None, logs |-> <<>>, raised |-> FALSE]

(* C7: parse_createddate never raises; it returns a YYYY/MM/DD string or    *)
(* absence; absence when the descriptor is absent, year < 1900, month = 0   *)
(* or day = 0 (a field counting as 0 when absent or not a number); a        *)
(* conversion failure (impossible calendar date, field that is not a        *)
(* number) yields absence and appends one diagnostic entry; rows and seen   *)
(* are left unchanged.                                                      *)
C7_DateNormalizerContained ==
    /\ []C7_DateRead
    /\ [][ (pc = "walk" /\ stack # <<>> /\ Top.phase = "comment")
           => /\ rows' = rows /\ seen' = seen /\ submitted' = submitted
              /\ pc' = "walk"
              /\ IsPrefix(debug_lines, debug_lines')
              /\ Len(debug_lines') <= Len(debug_lines) + 1 ]_vars

\* an impossible calendar date (30 February) has just been read: no date, one entry
C7_Witness ==
    /\ JustParsed
    /\ DescriptorOf(CurrentComment) # None
    /\ FieldOrZero(DescriptorOf(CurrentComment)[1], "year") = 2024
    /\ FieldOrZero(DescriptorOf(CurrentComment)[1], "month") = 2
    /\ FieldOrZero(DescriptorOf(CurrentComment)[1], "day") = 30
    /\ Top.created_str = None
    /\ Last(debug_lines)[1] = "datefail"

(* C3: every view that has zero comments yields exactly one accepted row,   *)
(* with commentId, status, user, body and createdDate all empty, and        *)
(* exactly one "no comments" diagnostic entry.                              *)
C3_ZeroCommentViewHasOneRow ==
    WalkFinished =>
      LET visits == ExpectedVisits
      IN  /\ \A n \in DOMAIN visits :
                CommentsIn(visits[n].view) = <<>> =>
                   /\ Cardinality({i \in DOMAIN rows : rows[i][11] = Some(ExpectedImage(n))}) = 1
                   /\ \A i \in DOMAIN rows :
                         rows[i][11] = Some(ExpectedImage(n)) => \A c \in 6 .. 10 : rows[i][c] = None
          /\ Len(EntriesOf("nocomments")) =
                Cardinality({n \in DOMAIN visits : CommentsIn(visits[n].view) = <<>>})

(* C4: main ends with both files written and status 0, or with a non-zero   *)
(* status and neither written: never with exactly one of them written.      *)
C4_BothFilesOrNeither ==
    pc = "exit" =>
      /\ (csv_file = "written") <=> (debug_file = "written")
      /\ exit_code = 0 <=> (csv_file = "written" /\ debug_file = "written")

(* C9: the walk appends exactly one entry per folder entered, one per view, *)
(* one per comment and one warning per view that has no comments, each      *)
(* before the rows of that folder, view or comment are submitted.           *)
C9_OneEntryPerNode ==
    /\ (pc = "walk" /\ stack # <<>> /\ Top.phase = "addrow") => Last(debug_lines)[1] = "comment"
    /\ (pc = "walk" /\ stack # <<>> /\ Top.phase = "addnone") => Last(debug_lines)[1] = "nocomments"
    /\ Len(EntriesOf("comment")) + Len(EntriesOf("nocomments")) >= Len(submitted)
    /\ WalkFinished =>
          LET visits == ExpectedVisits
              expected == SubmissionsFrom(visits, 1)
          IN  /\ Len(EntriesOf("folder")) = CountFolders(root)
              /\ Len(EntriesOf("view")) = Len(visits)
              /\ Len(EntriesOf("comment")) =
                    Cardinality({i \in DOMAIN expected : expected[i].comment # None})
              /\ Len(EntriesOf("nocomments")) =
                    Cardinality({n \in DOMAIN visits : CommentsIn(visits[n].view) = <<>>})

=============================================================================
